---------------------------- MODULE Spec2Model ----------------------------
(***************************************************************************)
(* Model of the cardiac dashboard (src/app.py): the presentation state     *)
(* (gender_selected, filtered_df, avg_age), the two selector callbacks     *)
(* update_dash and save_scenario, and the cardiac_scenario task graph      *)
(* (filtered_df, gender_filter --compute_avg_age--> avg_age).              *)
(*                                                                         *)
(* Numbers: ages are integers; an average rounded to one decimal is kept   *)
(* as an integer number of tenths (53.2 is 532).  A data frame is the set  *)
(* of its column names and the sequence of its rows; the rows of a frame    *)
(* without the age column keep an age that no definition reads.  A data    *)
(* node holds <<>> while it is unwritten and <<v>> once v was written.      *)
(*                                                                         *)
(* A handler is one step.  A submit is two steps, its acceptance and the   *)
(* end of its execution; the execution reads the input nodes, computes and *)
(* writes the output in that second step.  With at most 10 integer ages a  *)
(* tie of round(x, 1) is a mean ending in .25 or .75, which a float holds  *)
(* exactly, so rounding half to even on the exact quotient is what round() *)
(* returns.                                                                *)
(***************************************************************************)
EXTENDS Integers, Sequences, FiniteSets

VARIABLES
    df_raw,             \* module-level data frame loaded from the sheet
    gender_selected,    \* state.gender_selected
    filtered_df,        \* state.filtered_df
    avg_age,            \* state.avg_age (tenths)
    scenario,           \* state.scenario: id of the scenario shown in the page
    node_filtered_df,   \* per scenario: data node filtered_df
    node_gender_filter, \* per scenario: data node gender_filter
    node_avg_age,       \* per scenario: data node avg_age
    status,             \* per scenario: created / ready / running / done / failed
    active,             \* per scenario: number of executions in progress
    dirty               \* per scenario (history): an input was written since the
                        \* last execution read the inputs

vars == <<df_raw, gender_selected, filtered_df, avg_age, scenario,
          node_filtered_df, node_gender_filter, node_avg_age, status, active, dirty>>

pres == <<gender_selected, filtered_df, avg_age>>
nodes == <<node_filtered_df, node_gender_filter, node_avg_age>>

---------------------------------------------------------------------------
(* Bounds of the model. *)

\* how many leading rows of the sample sheet the generated sheets draw from
MaxPrefix == 5

---------------------------------------------------------------------------
(* Data *)

gender_lov == <<"All", "Male", "Female">>

Genders == {gender_lov[i] : i \in 1..Len(gender_lov)}

\* labels produced by df_raw["sex"].map({0: "Female", 1: "Male"})
sex_label == [c \in {0, 1} |-> IF c = 0 THEN "Female" ELSE "Male"]

Row(a, c) == [age |-> a, sex_label |-> sex_label[c]]

AllColumns == {"age", "sex_label"}

\* The ten-row sheet of the end-to-end example: 6 Male, 4 Female.
SampleRows ==
    << Row(50, 1), Row(55, 1), Row(60, 1), Row(45, 0), Row(70, 0),
       Row(65, 1), Row(40, 0), Row(48, 1), Row(52, 1), Row(58, 0) >>

Frame(cols, rows) == [columns |-> cols, rows |-> rows]

Sample == Frame(AllColumns, SampleRows)

\* pandas: DataFrame.empty
Empty(df) == Len(df.rows) = 0 \/ df.columns = {}

\* pandas: df[df["sex_label"] == g]
FilterBy(df, g) ==
    Frame(df.columns, SelectSeq(df.rows, LAMBDA r : r.sex_label = g))

RECURSIVE SumAge(_)
SumAge(rows) ==
    IF rows = <<>> THEN 0 ELSE Head(rows).age + SumAge(Tail(rows))

\* round(x, 1) of x = s / n, in tenths: round half to even
RoundHalfUp(s, n) ==
    LET q == (10 * s) \div n
        r == (10 * s) % n
    IN  IF 2 * r >= n THEN q + 1 ELSE q
Round1(s, n) ==
    LET q == (10 * s) \div n
        r == (10 * s) % n
    IN  IF 2 * r < n THEN q
        ELSE IF 2 * r > n THEN q + 1
        ELSE IF q % 2 = 0 THEN q ELSE q + 1

\* result of a call: a returned value or a raised exception
Return(v) == [exc |-> "none", val |-> v]
Raise(e) == [exc |-> e, val |-> 0]

\* the mean of an empty column is not a number
NaN == 0 - 1

\* round(data["age"].mean(), 1)
RoundedMeanAge(data) ==
    IF "age" \notin data.columns THEN Raise("KeyError")
    ELSE IF Len(data.rows) = 0 THEN Return(NaN)
    ELSE Return(Round1(SumAge(data.rows), Len(data.rows)))

\* round(data["age"].mean(), 1) if not data.empty else 0
MeanNoGuard(data) == RoundedMeanAge(data)
MeanOrZero(data) ==
    IF ~Empty(data) THEN RoundedMeanAge(data) ELSE Return(0)

compute_avg_age_swallow(fdf, gender_filter) ==
    LET data == IF gender_filter = "All" THEN fdf ELSE FilterBy(fdf, gender_filter)
        r == MeanOrZero(data)
    IN  IF r.exc = "none" THEN r ELSE Return(0)
compute_avg_age_nofilter(fdf, gender_filter) == MeanOrZero(fdf)
compute_avg_age(fdf, gender_filter) ==
    LET data == IF gender_filter = "All" THEN fdf ELSE FilterBy(fdf, gender_filter)
    IN  MeanOrZero(data)

---------------------------------------------------------------------------
(* Scenario bookkeeping *)

\* "main" is the scenario __main__ creates; "added" is one more scenario of
\* cardiac_scenario, created from the scenario selector
ScenarioIds == {"main", "added"}

Scenarios == {s \in ScenarioIds : status[s] # "absent"}

\* writing an input of a created scenario makes it ready
StatusAfterWrite(st) == IF st = "created" THEN "ready" ELSE st

\* a submit is accepted unless the scenario is running or an input is unwritten
AlwaysAccept(s) == TRUE
CanSubmit(s) == status[s] \in {"ready", "done", "failed"}

\* the task of cardiac_scenario: compute_avg_age over the scenario's own nodes
task_cfg_skippable(s) ==
    IF node_avg_age[s] # <<>> THEN Return(node_avg_age[s][1])
    ELSE compute_avg_age(node_filtered_df[s][1], node_gender_filter[s][1])
task_cfg(s) == compute_avg_age(node_filtered_df[s][1], node_gender_filter[s][1])

---------------------------------------------------------------------------
(* Handlers *)

\* the rows update_dash shows for selection g
Subset(g) == IF g = "All" THEN df_raw ELSE FilterBy(df_raw, g)

\* update_dash(state), run after the selector stored the new gender_selected;
\* when subset["age"] raises, state.filtered_df is already assigned
update_dash ==
    LET subset == Subset(gender_selected')
        r == MeanOrZero(subset)
    IN  /\ filtered_df' = subset
        /\ avg_age' = IF r.exc = "none" THEN r.val ELSE avg_age
        /\ UNCHANGED <<df_raw, scenario, nodes, status, active, dirty>>

\* save_scenario(state), run after the selector stored the new gender_selected
save_scenario_shared ==
    /\ node_filtered_df' = [s \in ScenarioIds |->
            IF s \in Scenarios THEN <<filtered_df>> ELSE node_filtered_df[s]]
    /\ node_gender_filter' = [s \in ScenarioIds |->
            IF s \in Scenarios THEN <<gender_selected'>> ELSE node_gender_filter[s]]
    /\ status' = [s \in ScenarioIds |-> StatusAfterWrite(status[s])]
    /\ dirty' = [s \in ScenarioIds |-> s \in Scenarios]
    /\ UNCHANGED <<df_raw, filtered_df, avg_age, scenario, node_avg_age, active>>
save_scenario_autosubmit ==
    LET r == compute_avg_age(filtered_df, gender_selected')
    IN  /\ node_filtered_df' = [node_filtered_df EXCEPT ![scenario] = <<filtered_df>>]
        /\ node_gender_filter' = [node_gender_filter EXCEPT ![scenario] = <<gender_selected'>>]
        /\ status' = [status EXCEPT ![scenario] = StatusAfterWrite(@)]
        /\ dirty' = [dirty EXCEPT ![scenario] = TRUE]
        /\ node_avg_age' = IF r.exc = "none"
                           THEN [node_avg_age EXCEPT ![scenario] = <<r.val>>]
                           ELSE node_avg_age
        /\ UNCHANGED <<df_raw, filtered_df, avg_age, scenario, active>>
save_scenario ==
    /\ node_filtered_df' = [node_filtered_df EXCEPT ![scenario] = <<filtered_df>>]
    /\ node_gender_filter' = [node_gender_filter EXCEPT ![scenario] = <<gender_selected'>>]
    /\ status' = [status EXCEPT ![scenario] = StatusAfterWrite(@)]
    /\ dirty' = [dirty EXCEPT ![scenario] = TRUE]
    /\ UNCHANGED <<df_raw, filtered_df, avg_age, scenario, node_avg_age, active>>

\* the dashboard selector: value gender_selected, on_change=update_dash
DashboardSelect(g) ==
    /\ gender_selected' = g
    /\ update_dash

\* the "Scenario Gender" selector: value gender_selected, on_change=save_scenario
ScenarioGenderSelect(g) ==
    /\ gender_selected' = g
    /\ save_scenario

\* scenario_selector: add a scenario of cardiac_scenario (all nodes unwritten)
CreateScenario(s) ==
    /\ status[s] = "absent"
    /\ status' = [status EXCEPT ![s] = "created"]
    /\ UNCHANGED <<df_raw, pres, scenario, nodes, active, dirty>>

\* scenario_selector: show another scenario
SelectScenario(s) ==
    /\ s \in Scenarios
    /\ s # scenario
    /\ scenario' = s
    /\ UNCHANGED <<df_raw, pres, nodes, status, active, dirty>>

\* the scenario control's submit button, accepted
SubmitStart ==
    /\ CanSubmit(scenario)
    /\ status' = [status EXCEPT ![scenario] = "running"]
    /\ active' = [active EXCEPT ![scenario] = @ + 1]
    /\ UNCHANGED <<df_raw, pres, scenario, nodes, dirty>>

\* the scenario control's submit button, refused: nothing changes
SubmitRefused ==
    /\ ~CanSubmit(scenario)
    /\ UNCHANGED vars

\* the execution of scenario s runs its task and ends: the output is written
\* only when the computation returns
Execute(s) ==
    /\ status[s] = "running"
    /\ LET r == task_cfg(s)
       IN  /\ node_avg_age' = IF r.exc = "none"
                              THEN [node_avg_age EXCEPT ![s] = <<r.val>>]
                              ELSE node_avg_age
           /\ status' = [status EXCEPT ![s] = IF r.exc = "none" THEN "done" ELSE "failed"]
    /\ active' = [active EXCEPT ![s] = @ - 1]
    /\ dirty' = [dirty EXCEPT ![s] = FALSE]
    /\ UNCHANGED <<df_raw, pres, scenario, node_filtered_df, node_gender_filter>>

---------------------------------------------------------------------------
(* Specifications *)

\* the rows of `rows` at the positions in S, in order
RECURSIVE PickRows(_, _, _)
PickRows(rows, S, i) ==
    IF i > Len(rows) THEN <<>>
    ELSE (IF i \in S THEN <<rows[i]>> ELSE <<>>) \o PickRows(rows, S, i + 1)

ColumnSets == {AllColumns, {"sex_label"}}

\* sheets: any selection of the first MaxPrefix sample rows, and the sample
\* itself, with or without an age column; a sheet has at least one record
\* (df_raw["sex"] at import needs the column, which an empty sheet lacks)
SheetFrames ==
    {Frame(c, PickRows(SampleRows, S, 1)) :
        c \in ColumnSets,
        S \in ((SUBSET (1..MaxPrefix)) \ {{}}) \cup {1..Len(SampleRows)}}

SampleFrames == {Frame(c, SampleRows) : c \in ColumnSets}

\* GUI initial states, then __main__: one scenario, its inputs written
InitWith(frames) ==
    /\ df_raw \in frames
    /\ gender_selected = "All"
    /\ filtered_df = df_raw
    /\ avg_age = 0
    /\ scenario = "main"
    /\ node_filtered_df = [s \in ScenarioIds |-> IF s = "main" THEN <<df_raw>> ELSE <<>>]
    /\ node_gender_filter = [s \in ScenarioIds |-> IF s = "main" THEN <<"All">> ELSE <<>>]
    /\ node_avg_age = [s \in ScenarioIds |-> <<>>]
    /\ status = [s \in ScenarioIds |-> IF s = "main" THEN "ready" ELSE "absent"]
    /\ active = [s \in ScenarioIds |-> 0]
    /\ dirty = [s \in ScenarioIds |-> s = "main"]

Init == InitWith(SheetFrames)

InitScenarios == InitWith(SampleFrames)

\* the page with the scenario of __main__ only
Next ==
    \/ \E g \in Genders : DashboardSelect(g)
    \/ \E g \in Genders : ScenarioGenderSelect(g)
    \/ SubmitStart
    \/ SubmitRefused
    \/ \E s \in ScenarioIds : Execute(s)

\* the page with the scenario selector in use
NextScenarios ==
    \/ Next
    \/ \E s \in ScenarioIds : CreateScenario(s)
    \/ \E s \in ScenarioIds : SelectScenario(s)

Spec == Init /\ [][Next]_vars

SpecScenarios == InitScenarios /\ [][NextScenarios]_vars

---------------------------------------------------------------------------
(* Properties *)

main == "main"

\* steps of the handlers
DashStep == \E g \in Genders : DashboardSelect(g)
CommitStep == \E g \in Genders : ScenarioGenderSelect(g)
ExecStep(s) == status[s] = "running" /\ status'[s] # "running"

\* the rows of the raw sheet whose sex label matches g (all rows for "All")
Matching(g) == SelectSeq(df_raw.rows, LAMBDA r : g = "All" \/ r.sex_label = g)

\* no row of df matches g
NoMatch(df, g) ==
    IF g = "All" THEN Len(df.rows) = 0
    ELSE \A i \in 1..Len(df.rows) : df.rows[i].sex_label # g

Ages(df) == [i \in 1..Len(df.rows) |-> df.rows[i].age]

HasAge == "age" \in df_raw.columns

\* C1: the avg_age node of a scenario changes only when an execution of that
\* scenario completes; a commit writes the presentation's filtered_df and
\* gender_selected to the two input nodes of the shown scenario, starts no
\* execution and leaves every avg_age node alone; update_dash changes no node.
C1_OutputOnlyOnSubmit ==
    [][ /\ \A s \in ScenarioIds :
              node_avg_age'[s] # node_avg_age[s]
                  => status[s] = "running" /\ status'[s] = "done"
        /\ CommitStep =>
              /\ node_filtered_df'[scenario] = <<filtered_df>>
              /\ node_gender_filter'[scenario] = <<gender_selected'>>
              /\ node_avg_age' = node_avg_age
              /\ active' = active
              /\ status'[scenario] = "running" => status[scenario] = "running"
              /\ filtered_df' = filtered_df /\ avg_age' = avg_age
        /\ DashStep => UNCHANGED <<nodes, status, active>>
      ]_vars

\* C1 witness: a commit after a completed run left the old output in place,
\* although the task would now compute something else
C1_Witness ==
    /\ status[main] = "done"
    /\ dirty[main]
    /\ node_avg_age[main] # <<>>
    /\ task_cfg(main) # Return(node_avg_age[main][1])

\* the end-to-end case: the sample sheet, "Female" selected in the dashboard,
\* committed to the scenario, and a submit completed after that commit
C2_Case ==
    /\ Ages(df_raw) = <<50, 55, 60, 45, 70, 65, 40, 48, 52, 58>>
    /\ HasAge
    /\ gender_selected = "Female"
    /\ Ages(filtered_df) = <<45, 70, 40, 58>>
    /\ node_filtered_df[main] = <<filtered_df>>
    /\ node_gender_filter[main] = <<"Female">>
    /\ status[main] = "done"
    /\ ~dirty[main]

\* C2 as stated: in the end-to-end case the avg_age node and the live avg_age
\* are both 53.3
C2_AsStated == C2_Case => node_avg_age[main] = <<533>> /\ avg_age = 533

\* C2 amended: in the end-to-end case the avg_age node and the live avg_age
\* are both 53.2 (the mean 53.25 rounded half to even)
C2_EndToEnd == C2_Case => node_avg_age[main] = <<532>> /\ avg_age = 532

C2_Witness == C2_Case /\ node_avg_age[main] = <<532>> /\ avg_age = 532

\* C3 as stated: after any change of gender_selected the presentation's
\* filtered_df is the raw rows matching the selection and avg_age their
\* rounded mean age (0 if there are none)
C3_Recomputed ==
    [][ (gender_selected' # gender_selected /\ HasAge) =>
            /\ filtered_df'.rows = Matching(gender_selected')
            /\ avg_age' = IF Matching(gender_selected') = <<>> THEN 0
                          ELSE Round1(SumAge(Matching(gender_selected')),
                                      Len(Matching(gender_selected')))
      ]_vars

\* C4: what update_dash stores is what compute_avg_age returns for the raw
\* sheet and the selection, and for the stored subset and the selection (when
\* one raises, so does the other, and avg_age is left alone); an execution
\* over inputs committed from a freshly previewed presentation writes the
\* live avg_age.
C4_PreviewEqualsTask ==
    [][ /\ DashStep =>
              LET r == compute_avg_age(df_raw, gender_selected')
              IN  /\ compute_avg_age(filtered_df', gender_selected') = r
                  /\ avg_age' = IF r.exc = "none" THEN r.val ELSE avg_age
        /\ \A s \in ScenarioIds :
              ( /\ ExecStep(s)
                /\ filtered_df.rows = Matching(gender_selected)
                /\ MeanOrZero(filtered_df) = Return(avg_age)
                /\ node_filtered_df[s] = <<filtered_df>>
                /\ node_gender_filter[s] = <<gender_selected>> )
              => node_avg_age'[s] = <<avg_age>> /\ status'[s] = "done"
      ]_vars

\* C4 witness: a filtered preview was committed and executed, and the node
\* holds the live value
C4_Witness ==
    /\ gender_selected = "Female"
    /\ Len(filtered_df.rows) > 0
    /\ Len(filtered_df.rows) < Len(df_raw.rows)
    /\ filtered_df.rows = Matching(gender_selected)
    /\ node_filtered_df[main] = <<filtered_df>>
    /\ node_gender_filter[main] = <<gender_selected>>
    /\ status[main] = "done" /\ ~dirty[main]
    /\ node_avg_age[main] = <<avg_age>>
    /\ avg_age > 0

\* C5: when no row matches the filter, compute_avg_age returns 0, update_dash
\* stores 0 and an execution writes 0 and ends done: no exception, no NaN.
C5_EmptyIsZero ==
    [][ /\ \A g \in Genders :
              /\ NoMatch(df_raw, g) => compute_avg_age(df_raw, g) = Return(0)
              /\ NoMatch(filtered_df, g) => compute_avg_age(filtered_df, g) = Return(0)
        /\ (DashStep /\ NoMatch(df_raw, gender_selected')) => avg_age' = 0
        /\ \A s \in ScenarioIds :
              (ExecStep(s) /\ NoMatch(node_filtered_df[s][1], node_gender_filter[s][1]))
              => node_avg_age'[s] = <<0>> /\ status'[s] = "done"
      ]_vars

\* C5 witness: an empty preview and an execution over an empty subset, even
\* of a sheet without an age column
C5_Witness ==
    /\ Len(df_raw.rows) > 0
    /\ ~HasAge
    /\ Len(filtered_df.rows) = 0
    /\ avg_age = 0
    /\ node_filtered_df[main] = <<filtered_df>>
    /\ node_gender_filter[main] = <<"All">>
    /\ status[main] = "done" /\ ~dirty[main]
    /\ node_avg_age[main] = <<0>>

\* C6: when a run of a scenario that already has an output completes, the
\* output is what compute_avg_age returns for the inputs the nodes hold now.
C6_ResubmitFresh ==
    [][ \A s \in ScenarioIds :
            (ExecStep(s) /\ node_avg_age[s] # <<>> /\ status'[s] = "done")
            => Return(node_avg_age'[s][1]) =
                   compute_avg_age(node_filtered_df'[s][1], node_gender_filter'[s][1])
      ]_vars

\* C6 witness: a scenario with an output from an earlier run is running again
\* over overwritten inputs that give another value
C6_Witness ==
    /\ status[main] = "running"
    /\ dirty[main]
    /\ node_avg_age[main] # <<>>
    /\ compute_avg_age(node_filtered_df[main][1], node_gender_filter[main][1]).exc = "none"
    /\ compute_avg_age(node_filtered_df[main][1], node_gender_filter[main][1])
           # Return(node_avg_age[main][1])

\* C7: a commit to, a submit of, or an execution of one scenario leaves the
\* three nodes of every other scenario as they were.
C7_Isolation ==
    [][ /\ (CommitStep \/ SubmitStart) =>
              \A b \in ScenarioIds \ {scenario} :
                  /\ node_filtered_df'[b] = node_filtered_df[b]
                  /\ node_gender_filter'[b] = node_gender_filter[b]
                  /\ node_avg_age'[b] = node_avg_age[b]
        /\ \A a \in ScenarioIds : ExecStep(a) =>
              \A b \in ScenarioIds \ {a} :
                  /\ node_filtered_df'[b] = node_filtered_df[b]
                  /\ node_gender_filter'[b] = node_gender_filter[b]
                  /\ node_avg_age'[b] = node_avg_age[b]
      ]_vars

\* C7 witness: two scenarios of the configuration hold different inputs and
\* different outputs
C7_Witness ==
    /\ node_filtered_df[main] # <<>> /\ node_filtered_df["added"] # <<>>
    /\ node_filtered_df[main] # node_filtered_df["added"]
    /\ node_gender_filter[main] # node_gender_filter["added"]
    /\ node_avg_age[main] # <<>> /\ node_avg_age["added"] # <<>>
    /\ node_avg_age[main] # node_avg_age["added"]

\* the task would raise on the inputs of s: the data is not empty and has no
\* age column
Raises(s) ==
    /\ "age" \notin node_filtered_df[s][1].columns
    /\ ~NoMatch(node_filtered_df[s][1], node_gender_filter[s][1])

\* C8: an execution whose computation raises ends failed and leaves the
\* avg_age node as it was.
C8_FailureKeepsOutput ==
    [][ \A s \in ScenarioIds :
            (ExecStep(s) /\ Raises(s))
            => status'[s] = "failed" /\ node_avg_age'[s] = node_avg_age[s]
      ]_vars

\* C8 witness: a failed scenario still holds the output of an earlier run
C8_Witness ==
    /\ status[main] = "failed"
    /\ Raises(main)
    /\ node_avg_age[main] = <<0>>

\* C9: no scenario ever has more than one execution in progress, and it has
\* one exactly while it is running.
C9_OneExecution ==
    \A s \in ScenarioIds :
        /\ active[s] <= 1
        /\ active[s] = 1 <=> status[s] = "running"

\* C9 witness: a commit arrived while the scenario was running
C9_Witness ==
    /\ status[main] = "running"
    /\ active[main] = 1
    /\ dirty[main]
    /\ node_avg_age[main] # <<>>
    /\ node_gender_filter[main] # <<"All">>

\* C10 as stated: once a submit completed after the last commit, the avg_age
\* node is the rounded mean age of the raw rows matching the gender_filter
\* node, and 0 only if there is no such row.
C10_MatchesRawSheet ==
    \A s \in ScenarioIds :
        (status[s] = "done" /\ ~dirty[s] /\ HasAge) =>
            LET m == Matching(node_gender_filter[s][1])
            IN  node_avg_age[s] =
                    << IF m = <<>> THEN 0 ELSE Round1(SumAge(m), Len(m)) >>

=============================================================================
